---- MODULE Spec2Model ----
(***************************************************************************)
(* HTTPServiceProxy (service-proxy.go): a registry of API keys, a URL      *)
(* builder, a request assembler with four body encodings, an optional      *)
(* preprocessor hook and an executor that checks the status class and      *)
(* reads the response body.                                                *)
(*                                                                         *)
(* Go strings and byte slices are sequences of one-character strings, so   *)
(* that escaping, parsing and serialisation are computed and not assumed.  *)
(***************************************************************************)
EXTENDS Integers, Sequences, FiniteSets, TLC

\* ------------------------------------------------------------------------
\* Bytes: the printable ASCII range, code points 32..126 (the grave accent,
\* code 96, is spelled out: it cannot be written in a string here).
\* ------------------------------------------------------------------------
Ascii ==
  << " ", "!", "\"", "#", "$", "%", "&", "'", "(", ")", "*", "+", ",", "-", ".", "/",
     "0", "1", "2", "3", "4", "5", "6", "7", "8", "9", ":", ";", "<", "=", ">", "?",
     "@", "A", "B", "C", "D", "E", "F", "G", "H", "I", "J", "K", "L", "M", "N", "O",
     "P", "Q", "R", "S", "T", "U", "V", "W", "X", "Y", "Z", "[", "\\", "]", "^", "_",
     "GRAVE", "a", "b", "c", "d", "e", "f", "g", "h", "i", "j", "k", "l", "m", "n", "o",
     "p", "q", "r", "s", "t", "u", "v", "w", "x", "y", "z", "{", "|", "}", "~" >>

Ord(c) == 31 + (CHOOSE i \in 1..Len(Ascii) : Ascii[i] = c)
Chr(n) == Ascii[n - 31]

Lower == {"a","b","c","d","e","f","g","h","i","j","k","l","m",
          "n","o","p","q","r","s","t","u","v","w","x","y","z"}
Upper == {"A","B","C","D","E","F","G","H","I","J","K","L","M",
          "N","O","P","Q","R","S","T","U","V","W","X","Y","Z"}
Digit == {"0","1","2","3","4","5","6","7","8","9"}
AlphaNum == Lower \cup Upper \cup Digit

UpperHex == <<"0", "1", "2", "3", "4", "5", "6", "7", "8", "9", "A", "B", "C", "D", "E", "F">>

\* strings.Index for a one-byte needle: the first position of c in s, 0 if none.
RECURSIVE IndexFrom(_, _, _)
IndexFrom(s, c, i) ==
  IF i > Len(s) THEN 0
  ELSE IF s[i] = c THEN i
  ELSE IndexFrom(s, c, i + 1)

Index(s, c) == IndexFrom(s, c, 1)

\* strings.Cut(s, c): before, after, found.
Cut(s, c) ==
  LET i == Index(s, c)
  IN IF i = 0 THEN [before |-> s, after |-> <<>>, found |-> FALSE]
     ELSE [before |-> SubSeq(s, 1, i - 1),
           after |-> SubSeq(s, i + 1, Len(s)),
           found |-> TRUE]

\* Byte-wise lexicographic order of Go strings (sort.Strings).
RECURSIVE StrLess(_, _)
StrLess(a, b) ==
  IF Len(a) = 0 THEN Len(b) > 0
  ELSE IF Len(b) = 0 THEN FALSE
  ELSE IF a[1] = b[1] THEN StrLess(Tail(a), Tail(b))
  ELSE Ord(a[1]) < Ord(b[1])

RECURSIVE SortStrings(_)
SortStrings(S) ==
  IF S = {} THEN <<>>
  ELSE LET m == CHOOSE x \in S : \A y \in S \ {x} : StrLess(x, y)
       IN <<m>> \o SortStrings(S \ {m})

\* strconv.Itoa for n >= 0.
RECURSIVE Itoa(_)
Itoa(n) ==
  IF n < 10 THEN <<UpperHex[n + 1]>>
  ELSE Itoa(n \div 10) \o <<UpperHex[(n % 10) + 1]>>

\* ------------------------------------------------------------------------
\* net/url as used by getUrl, getUrlStr and http.NewRequest.
\* ------------------------------------------------------------------------

\* url.shouldEscape for the three modes the proxy reaches.
shouldEscape(c, mode) ==
  IF c \in AlphaNum THEN FALSE
  ELSE IF mode = "encodeHost"
          /\ c \in {"!", "$", "&", "'", "(", ")", "*", "+", ",", ";", "=", ":",
                    "[", "]", "<", ">", "\""}
       THEN FALSE
  ELSE IF c \in {"-", "_", ".", "~"} THEN FALSE
  ELSE IF c \in {"$", "&", "+", ",", "/", ":", ";", "=", "?", "@"}
       THEN CASE mode = "encodePath" -> c = "?"
              [] mode = "encodeQueryComponent" -> TRUE
              [] OTHER -> TRUE
  ELSE TRUE

PctEncode(c) ==
  << "%", UpperHex[(Ord(c) \div 16) + 1], UpperHex[(Ord(c) % 16) + 1] >>

\* url.escape
RECURSIVE escape(_, _)
escape(s, mode) ==
  IF Len(s) = 0 THEN <<>>
  ELSE LET c == Head(s)
           e == IF ~shouldEscape(c, mode) THEN <<c>>
                ELSE IF c = " " /\ mode = "encodeQueryComponent" THEN <<"+">>
                ELSE PctEncode(c)
       IN e \o escape(Tail(s), mode)

ishex(c) == Index(UpperHex, c) > 0
unhex(c) == Index(UpperHex, c) - 1

\* url.unescape: the error cases first (a '%' not followed by two hex digits).
RECURSIVE unescapeOK(_)
unescapeOK(s) ==
  IF Len(s) = 0 THEN TRUE
  ELSE IF Head(s) = "%"
       THEN /\ Len(s) >= 3
            /\ ishex(s[2])
            /\ ishex(s[3])
            /\ unescapeOK(SubSeq(s, 4, Len(s)))
  ELSE unescapeOK(Tail(s))

RECURSIVE unescape(_, _)
unescape(s, mode) ==
  IF Len(s) = 0 THEN <<>>
  ELSE IF Head(s) = "%"
       THEN <<Chr(16 * unhex(s[2]) + unhex(s[3]))>> \o unescape(SubSeq(s, 4, Len(s)), mode)
  ELSE IF Head(s) = "+" /\ mode = "encodeQueryComponent"
       THEN <<" ">> \o unescape(Tail(s), mode)
  ELSE <<Head(s)>> \o unescape(Tail(s), mode)

\* url.Values.Encode over a map[string]string turned into Values by q.Set:
\* keys sorted, key and value query-escaped, pairs joined with '&'.
RECURSIVE EncodePairs(_, _)
EncodePairs(keys, q) ==
  IF Len(keys) = 0 THEN <<>>
  ELSE LET k == Head(keys)
           pair == escape(k, "encodeQueryComponent") \o <<"=">>
                   \o escape(q[k], "encodeQueryComponent")
       IN IF Len(keys) = 1 THEN pair
          ELSE pair \o <<"&">> \o EncodePairs(Tail(keys), q)

Encode(q) == EncodePairs(SortStrings(DOMAIN q), q)

\* url.URL.EscapedPath with RawPath consulted only when it is a valid
\* encoding of Path.
EscapedPath(u) ==
  IF Len(u.RawPath) > 0 /\ unescapeOK(u.RawPath)
     /\ unescape(u.RawPath, "encodePath") = u.Path
  THEN u.RawPath
  ELSE IF u.Path = <<"*">> THEN <<"*">>
  ELSE escape(u.Path, "encodePath")

\* url.URL.String for a URL without opaque part, user info or fragment.
String(u) ==
  LET scheme == IF Len(u.Scheme) > 0 THEN u.Scheme \o <<":">> ELSE <<>>
      slashes == IF (Len(u.Scheme) > 0 \/ Len(u.Host) > 0)
                    /\ (Len(u.Host) > 0 \/ Len(u.Path) > 0)
                 THEN <<"/", "/">> ELSE <<>>
      host == IF Len(u.Scheme) > 0 \/ Len(u.Host) > 0
              THEN escape(u.Host, "encodeHost") ELSE <<>>
      path == EscapedPath(u)
      lead == IF Len(path) > 0 /\ path[1] # "/" /\ Len(u.Host) > 0
              THEN <<"/">> ELSE <<>>
      query == IF u.ForceQuery \/ Len(u.RawQuery) > 0
               THEN <<"?">> \o u.RawQuery ELSE <<>>
  IN scheme \o slashes \o host \o lead \o path \o query

\* url.URL.setPath
setPath(u, p) ==
  LET path == unescape(p, "encodePath")
  IN [u EXCEPT !.Path = path,
               !.RawPath = IF escape(path, "encodePath") = p THEN <<>> ELSE p]

\* url.Parse for an absolute URL "scheme://host[/path][?query]", the shape
\* String gives a URL whose scheme and host are not empty.  ok is FALSE
\* where Parse returns an error.
Parse(raw) ==
  LET sch == Cut(raw, ":")
      rq == Cut(sch.after, "?")
      force == rq.found /\ Len(rq.after) = 0
      rest == rq.before
      hasAuth == Len(rest) >= 2 /\ SubSeq(rest, 1, 2) = <<"/", "/">>
      afterAuth == IF hasAuth THEN SubSeq(rest, 3, Len(rest)) ELSE rest
      slash == Index(afterAuth, "/")
      host == IF ~hasAuth THEN <<>>
              ELSE IF slash = 0 THEN afterAuth
              ELSE SubSeq(afterAuth, 1, slash - 1)
      p == IF ~hasAuth THEN rest
           ELSE IF slash = 0 THEN <<>>
           ELSE SubSeq(afterAuth, slash, Len(afterAuth))
      ok == sch.found /\ Len(sch.before) > 0 /\ unescapeOK(host) /\ unescapeOK(p)
  IN IF ~ok THEN [ok |-> FALSE]
     ELSE [ok |-> TRUE,
           url |-> setPath([Scheme |-> sch.before,
                            Host |-> unescape(host, "encodeHost"),
                            Path |-> <<>>,
                            RawPath |-> <<>>,
                            ForceQuery |-> force,
                            RawQuery |-> rq.after], p)]

\* url.Values: key -> sequence of values.
ValuesAdd(v, key, val) ==
  [k \in DOMAIN v \cup {key} |->
     IF k = key
     THEN (IF key \in DOMAIN v THEN v[key] ELSE <<>>) \o <<val>>
     ELSE v[k]]

EmptyValues == [k \in {} |-> <<>>]

\* url.ParseQuery: pairs split at '&', each cut at '=', both sides
\* query-unescaped; a pair holding ';' or a bad escape is an error and is
\* skipped, the first error being returned with the values parsed.
RECURSIVE parseQuery(_, _)
parseQuery(query, acc) ==
  IF Len(query) = 0 THEN acc
  ELSE LET c == Cut(query, "&")
           kv == Cut(c.before, "=")
           bad == \/ Index(c.before, ";") > 0
                  \/ ~unescapeOK(kv.before)
                  \/ ~unescapeOK(kv.after)
           next == IF Len(c.before) = 0 THEN acc
                   ELSE IF bad THEN [acc EXCEPT !.ok = FALSE]
                   ELSE [acc EXCEPT !.values =
                           ValuesAdd(@, unescape(kv.before, "encodeQueryComponent"),
                                        unescape(kv.after, "encodeQueryComponent"))]
       IN parseQuery(c.after, next)

ParseQuery(query) == parseQuery(query, [ok |-> TRUE, values |-> EmptyValues])

\* ------------------------------------------------------------------------
\* net/http as used by Request and processBody.
\* ------------------------------------------------------------------------

TokenChar == AlphaNum \cup {"!", "#", "$", "%", "&", "'", "*", "+", "-", ".",
                            "^", "_", "GRAVE", "|", "~"}

\* http.validMethod
validMethod(method) ==
  Len(method) > 0 /\ \A i \in 1..Len(method) : method[i] \in TokenChar

\* textproto.CanonicalMIMEHeaderKey: a key holding a byte that is no token
\* byte is returned as it is; otherwise the first letter and every letter
\* after '-' are upper-cased and the others lower-cased.
RECURSIVE canonical(_, _)
canonical(s, up) ==
  IF Len(s) = 0 THEN <<>>
  ELSE LET c == Head(s)
           d == IF up /\ c \in Lower THEN Chr(Ord(c) - 32)
                ELSE IF ~up /\ c \in Upper THEN Chr(Ord(c) + 32)
                ELSE c
       IN <<d>> \o canonical(Tail(s), c = "-")

CanonicalMIMEHeaderKey(s) ==
  IF \E i \in 1..Len(s) : s[i] \notin TokenChar THEN s
  ELSE canonical(s, TRUE)

\* http.Header: canonical key -> value (Set is the only writer here, so a
\* key holds one value).
EmptyHeader == [k \in {} |-> <<>>]

HeaderSet(h, key, val) ==
  LET ck == CanonicalMIMEHeaderKey(key)
  IN [k \in DOMAIN h \cup {ck} |-> IF k = ck THEN val ELSE h[k]]

NoBody == [kind |-> "nil"]
NoValues == [kind |-> "nil"]

\* ioutil.NopCloser over a reader of data.
Reader(data) == [kind |-> "reader", data |-> data]

\* http.NewRequest(method, url, nil)
NewRequest(method, urlStr) ==
  LET m == IF Len(method) = 0 THEN <<"G", "E", "T">> ELSE method
      u == Parse(urlStr)
  IN IF ~validMethod(m) THEN [ok |-> FALSE, err |-> [kind |-> "InvalidMethod"]]
     ELSE IF ~u.ok THEN [ok |-> FALSE, err |-> [kind |-> "ParseURL"]]
     ELSE [ok |-> TRUE,
           req |-> [kind |-> "request",
                    Method |-> m,
                    URL |-> u.url,
                    Header |-> EmptyHeader,
                    Body |-> NoBody,
                    ContentLength |-> 0,
                    Form |-> NoValues,
                    PostForm |-> NoValues]]

\* url.Values copied into ParseForm's Form (copyValues).
RECURSIVE addAll(_, _, _)
addAll(dst, key, vals) ==
  IF Len(vals) = 0 THEN dst
  ELSE addAll(ValuesAdd(dst, key, Head(vals)), key, Tail(vals))

RECURSIVE copyValues(_, _, _)
copyValues(dst, src, keys) ==
  IF keys = {} THEN dst
  ELSE LET k == CHOOSE x \in keys : TRUE
       IN copyValues(addAll(dst, k, src[k]), src, keys \ {k})

\* http.Request.ParseForm on a request whose PostForm and Form are unset
\* or set.  For POST, PUT and PATCH the body is parsed: a nil Body is the
\* error "missing form body"; a body that is present would be read as a
\* form (the proxy never reaches that: it sets Body only after ParseForm).
ParseForm(req) ==
  LET wantsBody == req.Method \in {<<"P", "O", "S", "T">>, <<"P", "U", "T">>, <<"P", "A", "T", "C", "H">>}
      postErr == req.PostForm.kind = "nil" /\ wantsBody /\ req.Body.kind = "nil"
      postForm == IF req.PostForm.kind = "nil"
                  THEN [kind |-> "values", v |-> EmptyValues]
                  ELSE req.PostForm
      pq == ParseQuery(req.URL.RawQuery)
      form == IF req.Form.kind = "nil"
              THEN [kind |-> "values",
                    v |-> copyValues(postForm.v, pq.values, DOMAIN pq.values)]
              ELSE req.Form
      queryErr == req.Form.kind = "nil" /\ ~pq.ok
  IN [req |-> [req EXCEPT !.PostForm = postForm, !.Form = form],
      err |-> IF postErr THEN [kind |-> "MissingFormBody"]
              ELSE IF queryErr THEN [kind |-> "ParseQuery"]
              ELSE [kind |-> "nil"]]

\* ------------------------------------------------------------------------
\* encoding/json as used by processBody and JSON.
\* ------------------------------------------------------------------------

\* The string encoder: '"' and '\' are backslash-escaped, '<', '>' and '&'
\* are written \u00XX (HTML escaping is on by default).
RECURSIVE jsonString(_)
jsonString(s) ==
  IF Len(s) = 0 THEN <<>>
  ELSE LET c == Head(s)
           e == IF c \in {"\"", "\\"} THEN <<"\\", c>>
                ELSE IF c \in {"<", ">", "&"}
                     THEN <<"\\", "u", "0", "0">> \o << UpperHex[(Ord(c) \div 16) + 1],
                                         Chr(Ord(UpperHex[(Ord(c) % 16) + 1]) +
                                             (IF Ord(c) % 16 >= 10 THEN 32 ELSE 0)) >>
                ELSE <<c>>
       IN e \o jsonString(Tail(s))

\* A struct value is a sequence of fields [name, type, s, n]; type is
\* "string", "int" or "chan".  Fields whose name starts lower-case are
\* unexported and left out.
exported(fields) == SelectSeq(fields, LAMBDA f : f.name[1] \in Upper)

RECURSIVE marshalFields(_)
marshalFields(fields) ==
  IF Len(fields) = 0 THEN <<>>
  ELSE LET f == Head(fields)
           val == IF f.type = "string" THEN <<"\"">> \o jsonString(f.s) \o <<"\"">>
                  ELSE Itoa(f.n)
           one == <<"\"">> \o f.name \o <<"\"", ":">> \o val
       IN IF Len(fields) = 1 THEN one
          ELSE one \o <<",">> \o marshalFields(Tail(fields))

\* json.Marshal of a struct: a channel field is an UnsupportedTypeError.
Marshal(body) ==
  LET fs == exported(body.fields)
  IN IF \E i \in 1..Len(fs) : fs[i].type = "chan"
     THEN [ok |-> FALSE, err |-> [kind |-> "UnsupportedType"]]
     ELSE [ok |-> TRUE, data |-> <<"{">> \o marshalFields(fs) \o <<"}">>]

\* json.Unmarshal into an interface{} target succeeds exactly on valid
\* JSON text.  The recogniser covers the literals, unsigned integers and
\* the empty object and array; every other text is reported invalid.
jsonValid(data) ==
  \/ data \in {<<"n", "u", "l", "l">>, <<"t", "r", "u", "e">>, <<"f", "a", "l", "s", "e">>, <<"{", "}">>, <<"[", "]">>}
  \/ /\ Len(data) > 0
     /\ \A i \in 1..Len(data) : data[i] \in Digit
     /\ (Len(data) > 1 => data[1] # "0")

\* ------------------------------------------------------------------------
\* Bounds and input domains.
\* ------------------------------------------------------------------------

\* Longest response body the server sends.
MaxRespLen == 2

\* How many times the caller changes the map it passed at construction.
MaxMutations == 2

Callers == {"c1", "c2"}

NoErr == [kind |-> "nil"]
NoReq == [kind |-> "nil"]
NoRes == [kind |-> "nil"]
NoOpts == [kind |-> "nil"]
NilMap == [kind |-> "nil"]
NilRef == "nil"

GoMap(f) == [kind |-> "map", m |-> f]

ServiceApi(method, path) == [Method |-> method, Path |-> path]

GetUser == ServiceApi(<<"G", "E", "T">>, <<"/", "u", "s", "e", "r", "s", "/", "{", "i", "d", "}">>)
PostForm == ServiceApi(<<"P", "O", "S", "T">>, <<"/", "v", "1", "/", "f", "o", "r", "m">>)
BadVerb == ServiceApi(<<"G", "E", " ", "T">>, <<"/", "v", "1", "/", "i", "t", "e", "m", "s">>)
Relative == ServiceApi(<<>>, <<"a", " ", "b">>)
Star == ServiceApi(<<"G", "E", "T">>, <<"*">>)
Evil == ServiceApi(<<"D", "E", "L", "E", "T", "E">>, <<"/", "e", "v", "i", "l">>)

\* The API map the caller passes at construction.
CallerAPIs ==
  [k \in {"getUser", "postForm", "badVerb", "relative", "star"} |->
     CASE k = "getUser" -> GetUser
       [] k = "postForm" -> PostForm
       [] k = "badVerb" -> BadVerb
       [] k = "relative" -> Relative
       [] k = "star" -> Star]

NoAPIs == [k \in {} |-> GetUser]

ApiKeys == {"getUser", "postForm", "badVerb", "relative", "star", "nope"}

Schemes == {<<"h", "t", "t", "p", "s">>}
Hosts == {<<"a", "p", "i", ".", "t", "e", "s", "t">>}
Preprocessors == {"nil", "auth"}

QueryId == [k \in {<<"i", "d">>} |-> <<"4", "2">>]
QueryTwo == [k \in {<<"i", "d">>, <<"a", " ", "b">>} |-> IF k = <<"i", "d">> THEN <<"4", "2">> ELSE <<"c", "&", "d">>]
Queries == {NilMap, GoMap([k \in {} |-> <<>>]), GoMap(QueryId), GoMap(QueryTwo)}

HeadersLower == [k \in {<<"c", "o", "n", "t", "e", "n", "t", "-", "t", "y", "p", "e">>} |-> <<"t", "e", "x", "t", "/", "p", "l", "a", "i", "n">>]
HeadersBoth == [k \in {<<"c", "o", "n", "t", "e", "n", "t", "-", "t", "y", "p", "e">>, <<"C", "o", "n", "t", "e", "n", "t", "-", "T", "y", "p", "e">>, <<"X", "-", "I", "d">>} |->
                  IF k = <<"c", "o", "n", "t", "e", "n", "t", "-", "t", "y", "p", "e">> THEN <<"t", "e", "x", "t", "/", "p", "l", "a", "i", "n">>
                  ELSE IF k = <<"X", "-", "I", "d">> THEN <<"7">> ELSE <<"a", "/", "b">>]
HeaderMaps == {NilMap, GoMap(HeadersLower), GoMap(HeadersBoth)}

FormAlice == [k \in {<<"n", "a", "m", "e">>} |-> <<"a", "l", "i", "c", "e">>]
StructAlice == << [name |-> <<"N", "a", "m", "e">>, type |-> "string", s |-> <<"a", "l", "i", "c", "e">>, n |-> 0],
                  [name |-> <<"A", "g", "e">>, type |-> "int", s |-> <<>>, n |-> 30],
                  [name |-> <<"s", "e", "c", "r", "e", "t">>, type |-> "string", s |-> <<"x">>, n |-> 0] >>
StructChan == << [name |-> <<"N", "a", "m", "e">>, type |-> "string", s |-> <<"a", "\"", "b">>, n |-> 0],
                 [name |-> <<"D", "o", "n", "e">>, type |-> "chan", s |-> <<>>, n |-> 0] >>

NilBody == [kind |-> "nil"]
Bodies ==
  { NilBody,
    [kind |-> "string", str |-> <<"h", "i">>],
    [kind |-> "bytes", bytes |-> <<"a", "=", "1">>],
    [kind |-> "map", m |-> FormAlice],
    [kind |-> "struct", fields |-> StructAlice],
    [kind |-> "struct", fields |-> StructChan],
    [kind |-> "int", n |-> 42],
    [kind |-> "ptr", fields |-> StructAlice] }

RequestOptions(key, query, body, headers) ==
  [ApiKey |-> key, Query |-> query, Body |-> body, Headers |-> headers]

AllOptions ==
  { RequestOptions(k, q, b, h) : k \in ApiKeys, q \in Queries, b \in Bodies, h \in HeaderMaps }

SharedOptions ==
  { RequestOptions(k, GoMap(QueryId), b, NilMap) :
      k \in {"getUser", "nope"}, b \in {NilBody, [kind |-> "string", str |-> <<"h", "i">>]} }

\* Requests handed to RawRequest directly.
RawGet == NewRequest(<<"G", "E", "T">>, <<"h", "t", "t", "p", "s", ":", "/", "/", "a", "p", "i", ".", "t", "e", "s", "t", "/", "r", "a", "w">>).req
RawPost == [NewRequest(<<"P", "O", "S", "T">>, <<"h", "t", "t", "p", "s", ":", "/", "/", "a", "p", "i", ".", "t", "e", "s", "t", "/", "r", "a", "w", "?", "x", "=", "1">>).req EXCEPT
              !.Body = Reader(<<"h", "i">>), !.ContentLength = 2]
RawRequests == {RawGet, RawPost}

\* What client.Do gives back: a transport error, or a response with a
\* status code and a body that delivers its bytes and then either ends or
\* fails after `at` of them.
ServerBytes == <<"4", "2", "x", "7">>
Statuses == {199, 200, 299, 300, 404}
RespBodies == { SubSeq(ServerBytes, 1, n) : n \in 0..MaxRespLen }

Response(code, data, fails, at) ==
  [kind |-> "response", StatusCode |-> code,
   Body |-> [data |-> data, fails |-> fails, at |-> at]]

Outcomes ==
  {[kind |-> "error"]}
    \cup { Response(code, d, FALSE, 0) : code \in Statuses, d \in RespBodies }
    \cup { Response(code, d, TRUE, at) : code \in Statuses, d \in RespBodies, at \in 0..MaxRespLen }

AllOutcomes == { o \in Outcomes : o.kind = "response" => o.Body.at <= Len(o.Body.data) }

SharedOutcomes ==
  { o \in AllOutcomes : o.kind = "response" =>
      /\ o.StatusCode \in {200, 404}
      /\ Len(o.Body.data) = 1
      /\ ~o.Body.fails }

\* ------------------------------------------------------------------------
\* The proxy.
\* ------------------------------------------------------------------------

VARIABLES
  proxy,      \* the HTTPServiceProxy: url, preprocessor, apis (a map reference)
  heap,       \* the Go maps, by reference: the caller's and the proxy's
  built,      \* what NewHTTPServiceProxy was given, as it was then
  mutations,  \* how often the caller has changed its map since
  pc,         \* per caller: "idle", "inflight" (inside client.Do), "returned"
  call        \* per caller: the call in progress or just returned

vars == <<proxy, heap, built, mutations, pc, call>>

\* NewHTTPServiceProxy had it kept opts.APIs itself instead of a copy.
NewHTTPServiceProxy_aliased(opts, h) ==
  [proxy |-> [url |-> [Scheme |-> opts.Scheme, Host |-> opts.Host],
              preprocessor |-> opts.Preprocessor,
              apis |-> IF opts.APIs # NilRef THEN opts.APIs ELSE "proxyMap"],
   heap |-> [h EXCEPT !["proxyMap"] = NoAPIs]]

\* NewHTTPServiceProxy: a fresh map filled from opts.APIs, the base URL and
\* the preprocessor.  The argument h is the heap of maps; the result holds
\* the proxy and the heap with the fresh map in it.
NewHTTPServiceProxy(opts, h) ==
  LET apis == IF opts.APIs # NilRef
              THEN [key \in DOMAIN h[opts.APIs] |-> h[opts.APIs][key]]
              ELSE NoAPIs
  IN [proxy |-> [url |-> [Scheme |-> opts.Scheme, Host |-> opts.Host],
                 preprocessor |-> opts.Preprocessor,
                 apis |-> "proxyMap"],
      heap |-> [h EXCEPT !["proxyMap"] = apis]]

\* getUrl had it left the query out.
getUrl_noQuery(p, path, query) ==
  [Scheme |-> p.url.Scheme, Host |-> p.url.Host, Path |-> path,
   RawPath |-> <<>>, ForceQuery |-> FALSE, RawQuery |-> <<>>]

\* getUrl
getUrl(p, path, query) ==
  [Scheme |-> p.url.Scheme,
   Host |-> p.url.Host,
   Path |-> path,
   RawPath |-> <<>>,
   ForceQuery |-> FALSE,
   RawQuery |-> IF query.kind # "nil" THEN Encode(query.m) ELSE <<>>]

\* getUrlStr
getUrlStr(p, path, query) == String(getUrl(p, path, query))

\* getApi had it answered a missing key with the zero ServiceApi.
getApi_default(p, h, key) ==
  IF p.apis # NilRef /\ key \in DOMAIN h[p.apis]
  THEN [found |-> TRUE, api |-> h[p.apis][key]]
  ELSE [found |-> TRUE, api |-> ServiceApi(<<>>, <<>>)]

\* getApi: the registered ServiceApi, or nil.
getApi(p, h, key) ==
  IF p.apis # NilRef
  THEN IF key \in DOMAIN h[p.apis]
       THEN [found |-> TRUE, api |-> h[p.apis][key]]
       ELSE [found |-> FALSE]
  ELSE [found |-> FALSE]

\* The headers Request builds from opts.Headers.  Go ranges over a map in
\* no fixed order and header.Set canonicalises the key, so two keys with
\* one canonical form leave the value of whichever was set last: every
\* such outcome is in the set.
HeaderOutcomes(headers) ==
  IF headers.kind = "nil" THEN {EmptyHeader}
  ELSE LET keys == DOMAIN headers.m
           canon == { CanonicalMIMEHeaderKey(k) : k \in keys }
           last == { f \in [canon -> keys] :
                       \A ck \in canon : CanonicalMIMEHeaderKey(f[ck]) = ck }
       IN { [ck \in canon |-> headers.m[f[ck]]] : f \in last }

\* reflect.TypeOf(body).Kind().String()
KindOf(body) == body.kind

RECURSIVE formAddAll(_, _, _)
formAddAll(form, m, keys) ==
  IF keys = {} THEN form
  ELSE LET k == CHOOSE x \in keys : TRUE
       IN formAddAll(ValuesAdd(form, k, m[k]), m, keys \ {k})

\* The struct branch had its else let any other body through untouched.
processStruct_fallback(req, body) ==
  IF KindOf(body) = "struct"
  THEN LET b == Marshal(body)
       IN IF ~b.ok THEN [req |-> req, err |-> b.err, dropped |-> NoErr]
          ELSE [req |-> [req EXCEPT
                           !.Body = Reader(b.data),
                           !.ContentLength = Len(b.data),
                           !.Header = HeaderSet(@, <<"C", "o", "n", "t", "e", "n", "t", "-", "T", "y", "p", "e">>, <<"a", "p", "p", "l", "i", "c", "a", "t", "i", "o", "n", "/", "j", "s", "o", "n">>)],
                err |-> NoErr, dropped |-> NoErr]
  ELSE [req |-> req, err |-> NoErr, dropped |-> NoErr]

\* processBody, the struct branch and the final else.
processStruct(req, body) ==
  IF KindOf(body) = "struct"
  THEN LET b == Marshal(body)
       IN IF ~b.ok THEN [req |-> req, err |-> b.err, dropped |-> NoErr]
          ELSE [req |-> [req EXCEPT
                           !.Body = Reader(b.data),
                           !.ContentLength = Len(b.data),
                           !.Header = HeaderSet(@, <<"C", "o", "n", "t", "e", "n", "t", "-", "T", "y", "p", "e">>, <<"a", "p", "p", "l", "i", "c", "a", "t", "i", "o", "n", "/", "j", "s", "o", "n">>)],
                err |-> NoErr, dropped |-> NoErr]
  ELSE [req |-> req, err |-> [kind |-> "IllegalBodyType"], dropped |-> NoErr]

\* processBody, the map branch after req.ParseForm() has returned pf.
processForm(pf, m) ==
  IF pf.err.kind # "nil"
  THEN [req |-> pf.req, err |-> NoErr, dropped |-> pf.err]
  ELSE [req |-> [pf.req EXCEPT
                   !.Form = [kind |-> "values", v |-> formAddAll(pf.req.Form.v, m, DOMAIN m)],
                   !.Header = HeaderSet(@, <<"C", "o", "n", "t", "e", "n", "t", "-", "T", "y", "p", "e">>,
                                        <<"a", "p", "p", "l", "i", "c", "a", "t", "i", "o", "n", "/", "x", "-", "w", "w", "w", "-", "f", "o", "r", "m", "-", "u", "r", "l", "e", "n", "c", "o", "d", "e", "d">>)],
        err |-> NoErr, dropped |-> NoErr]

\* processBody.  req is the request as it leaves, err what is returned and
\* dropped the error of req.ParseForm() that line 190 answers with nil.
processBody(req, body) ==
  IF body.kind = "string"
  THEN [req |-> [req EXCEPT !.Body = Reader(body.str), !.ContentLength = Len(body.str)],
        err |-> NoErr, dropped |-> NoErr]
  ELSE IF body.kind = "bytes"
  THEN [req |-> [req EXCEPT !.Body = Reader(body.bytes), !.ContentLength = Len(body.bytes)],
        err |-> NoErr, dropped |-> NoErr]
  ELSE IF body.kind = "map" THEN processForm(ParseForm(req), body.m)
  ELSE processStruct(req, body)

\* Request up to the call of RawRequest, stage by stage: the key lookup,
\* http.NewRequest, the headers and the body.  header is the http.Header
\* built from opts.Headers; steps lists what ran, in order.
assembleBody(pb) ==
  [ok |-> pb.err.kind = "nil",
   err |-> pb.err,
   req |-> IF pb.err.kind = "nil" THEN pb.req ELSE NoReq,
   dropped |-> pb.dropped,
   steps |-> <<"getApi", "NewRequest", "Header", "processBody">>]

assembleRequest(opts, header, nr) ==
  IF ~nr.ok
  THEN [ok |-> FALSE, err |-> nr.err, req |-> NoReq, dropped |-> NoErr,
        steps |-> <<"getApi", "NewRequest">>]
  ELSE IF opts.Body.kind = "nil"
  THEN [ok |-> TRUE, err |-> NoErr, req |-> [nr.req EXCEPT !.Header = header],
        dropped |-> NoErr, steps |-> <<"getApi", "NewRequest", "Header">>]
  ELSE assembleBody(processBody([nr.req EXCEPT !.Header = header], opts.Body))

assembleApi(p, opts, header, api) ==
  IF ~api.found
  THEN [ok |-> FALSE, err |-> [kind |-> "InvalidAPIKey", key |-> opts.ApiKey],
        req |-> NoReq, dropped |-> NoErr, steps |-> <<"getApi">>]
  ELSE assembleRequest(opts, header,
         NewRequest(api.api.Method, getUrlStr(p, api.api.Path, opts.Query)))

assemble(p, h, opts, header) ==
  assembleApi(p, opts, header, getApi(p, h, opts.ApiKey))

\* A preprocessor as callers write them: "auth" sets one header.
preprocessor(name, req) ==
  IF name = "auth"
  THEN [req EXCEPT !.Header = HeaderSet(@, <<"A", "u", "t", "h", "o", "r", "i", "z", "a", "t", "i", "o", "n">>, <<"t", "o", "k">>)]
  ELSE req

\* RawRequest up to client.Do(req): the preprocessor, when set, then the
\* request as it is handed to the client.
RawRequestSend(p, req) ==
  IF p.preprocessor # "nil"
  THEN [req |-> preprocessor(p.preprocessor, req), hookCalls |-> 1,
        steps |-> <<"preprocessor", "Do">>]
  ELSE [req |-> req, hookCalls |-> 0, steps |-> <<"Do">>]

\* The status check had it accepted 200 alone.
StatusOK_only200(code) == code = 200

\* res.StatusCode/100 != 2, negated.
StatusOK(code) == code \div 100 = 2

\* ioutil.ReadAll: the bytes read, and the reader's error if it failed.
ReadAll(body) ==
  IF body.fails
  THEN [data |-> SubSeq(body.data, 1, body.at), err |-> [kind |-> "read"]]
  ELSE [data |-> body.data, err |-> NoErr]

\* RawRequest from the return of client.Do to its own return.  bodyState
\* is the response body's handle: "none" without a response, "closed" when
\* the deferred Close ran, "open" when the function returned without it.
RawRequestReturn(req, outcome) ==
  IF outcome.kind = "error"
  THEN [result |-> <<>>, err |-> [kind |-> "Transport", url |-> String(req.URL)],
        bodyState |-> "none", steps |-> <<"return">>]
  ELSE IF ~StatusOK(outcome.StatusCode)
  THEN [result |-> <<>>, err |-> [kind |-> "Status", code |-> outcome.StatusCode],
        bodyState |-> "open", steps |-> <<"return">>]
  ELSE LET rd == ReadAll(outcome.Body)
       IN IF rd.err.kind # "nil"
          THEN [result |-> rd.data, err |-> [kind |-> "Read", url |-> String(req.URL)],
                bodyState |-> "open", steps |-> <<"ReadAll", "return">>]
          ELSE [result |-> rd.data, err |-> NoErr,
                bodyState |-> "closed", steps |-> <<"ReadAll", "Close", "return">>]

\* JSON after Request has returned (data, err).
JSONReturn(data, err) ==
  IF err.kind # "nil" THEN [err |-> err, decoded |-> FALSE]
  ELSE IF jsonValid(data) THEN [err |-> NoErr, decoded |-> TRUE]
  ELSE [err |-> [kind |-> "Unmarshal"], decoded |-> FALSE]

\* ------------------------------------------------------------------------
\* The calls.
\* ------------------------------------------------------------------------

\* A call as its caller and a recording test client see it: the options or
\* the request it was given, the request as assembled and as handed to the
\* client, how often the preprocessor and the client were invoked, the
\* response, and what came back.  result and err are what Request or
\* RawRequest returned; jsonErr is what JSON returned.
IdleCall ==
  [mode |-> "none", opts |-> NoOpts, input |-> NoReq, assembled |-> NoReq,
   dropped |-> NoErr, hookCalls |-> 0, sends |-> 0, sent |-> NoReq,
   steps |-> <<>>, res |-> NoRes, bodyState |-> "none", result |-> <<>>,
   err |-> NoErr, jsonErr |-> NoErr, decoded |-> FALSE]

Init ==
  \E scheme \in Schemes, host \in Hosts, pre \in Preprocessors,
     ref \in {NilRef, "callerMap"} :
    LET h0 == [r \in {"callerMap", "proxyMap"} |->
                 IF r = "callerMap" /\ ref # NilRef THEN CallerAPIs ELSE NoAPIs]
        n == NewHTTPServiceProxy(
               [Scheme |-> scheme, Host |-> host, Preprocessor |-> pre, APIs |-> ref], h0)
    IN /\ proxy = n.proxy
       /\ heap = n.heap
       /\ built = [Scheme |-> scheme, Host |-> host, ref |-> ref, APIs |-> h0["callerMap"]]
       /\ mutations = 0
       /\ pc = [c \in Callers |-> "idle"]
       /\ call = [c \in Callers |-> IdleCall]

\* Request or JSON (which starts with Request) from the call to either its
\* early return or the moment client.Do has the request.
Returned(c, mode, opts, a) ==
  /\ pc' = [pc EXCEPT ![c] = "returned"]
  /\ call' = [call EXCEPT ![c] =
                [IdleCall EXCEPT !.mode = mode, !.opts = opts,
                                 !.dropped = a.dropped, !.err = a.err,
                                 !.jsonErr = IF mode = "JSON" THEN a.err ELSE NoErr,
                                 !.steps = a.steps \o <<"return">>]]

Sent(c, mode, opts, a, s) ==
  /\ pc' = [pc EXCEPT ![c] = "inflight"]
  /\ call' = [call EXCEPT ![c] =
                [IdleCall EXCEPT !.mode = mode, !.opts = opts,
                                 !.assembled = a.req, !.dropped = a.dropped,
                                 !.hookCalls = s.hookCalls, !.sends = 1,
                                 !.sent = s.req,
                                 !.steps = a.steps \o s.steps]]

Assembled(c, mode, opts, a) ==
  IF ~a.ok THEN Returned(c, mode, opts, a)
  ELSE Sent(c, mode, opts, a, RawRequestSend(proxy, a.req))

\* Request
Request(c, opts) ==
  /\ pc[c] = "idle"
  /\ \E header \in HeaderOutcomes(opts.Headers) :
       Assembled(c, "Request", opts, assemble(proxy, heap, opts, header))
  /\ UNCHANGED <<proxy, heap, built, mutations>>

\* JSON, which starts with Request.
JSON(c, opts) ==
  /\ pc[c] = "idle"
  /\ \E header \in HeaderOutcomes(opts.Headers) :
       Assembled(c, "JSON", opts, assemble(proxy, heap, opts, header))
  /\ UNCHANGED <<proxy, heap, built, mutations>>

\* RawRequest called directly, up to client.Do.
SentRaw(c, req, s) ==
  call' = [call EXCEPT ![c] =
             [IdleCall EXCEPT !.mode = "RawRequest", !.input = req,
                              !.hookCalls = s.hookCalls, !.sends = 1,
                              !.sent = s.req, !.steps = s.steps]]

RawRequest(c, req) ==
  /\ pc[c] = "idle"
  /\ SentRaw(c, req, RawRequestSend(proxy, req))
  /\ pc' = [pc EXCEPT ![c] = "inflight"]
  /\ UNCHANGED <<proxy, heap, built, mutations>>

\* client.Do returns and the call runs to its return.
DoReturns(c, outcome) ==
  /\ pc[c] = "inflight"
  /\ LET r == RawRequestReturn(call[c].sent, outcome)
         j == JSONReturn(r.result, r.err)
         isJSON == call[c].mode = "JSON"
     IN call' = [call EXCEPT ![c] =
                   [@ EXCEPT !.res = outcome,
                             !.bodyState = r.bodyState,
                             !.result = r.result,
                             !.err = r.err,
                             !.jsonErr = IF isJSON THEN j.err ELSE NoErr,
                             !.decoded = isJSON /\ j.decoded,
                             !.steps = @ \o r.steps]]
  /\ pc' = [pc EXCEPT ![c] = "returned"]
  /\ UNCHANGED <<proxy, heap, built, mutations>>

\* The caller has its result and is free to call again.
TakeResult(c) ==
  /\ pc[c] = "returned"
  /\ pc' = [pc EXCEPT ![c] = "idle"]
  /\ call' = [call EXCEPT ![c] = IdleCall]
  /\ UNCHANGED <<proxy, heap, built, mutations>>

\* The caller writes to the map it passed as opts.APIs.
CallerSetsApi(key, api) ==
  /\ built.ref # NilRef
  /\ mutations < MaxMutations
  /\ LET m == heap["callerMap"]
     IN heap' = [heap EXCEPT !["callerMap"] =
                   [k \in DOMAIN m \cup {key} |-> IF k = key THEN api ELSE m[k]]]
  /\ mutations' = mutations + 1
  /\ UNCHANGED <<proxy, built, pc, call>>

CallerDeletesApi(key) ==
  /\ built.ref # NilRef
  /\ mutations < MaxMutations
  /\ key \in DOMAIN heap["callerMap"]
  /\ LET m == heap["callerMap"]
     IN heap' = [heap EXCEPT !["callerMap"] = [k \in DOMAIN m \ {key} |-> m[k]]]
  /\ mutations' = mutations + 1
  /\ UNCHANGED <<proxy, built, pc, call>>

\* One caller, every input.
Next ==
  \E c \in {"c1"} :
    \/ \E opts \in AllOptions : Request(c, opts)
    \/ \E opts \in AllOptions : JSON(c, opts)
    \/ \E req \in RawRequests : RawRequest(c, req)
    \/ \E outcome \in AllOutcomes : DoReturns(c, outcome)
    \/ TakeResult(c)

Spec == Init /\ [][Next]_vars

\* Two callers at once and a caller that keeps writing to its map.
InitShared ==
  /\ Init
  /\ built.ref = "callerMap"

NextShared ==
  \/ \E c \in Callers :
       \/ \E opts \in SharedOptions : Request(c, opts)
       \/ \E opts \in SharedOptions : JSON(c, opts)
       \/ \E req \in {RawGet} : RawRequest(c, req)
       \/ \E outcome \in SharedOutcomes : DoReturns(c, outcome)
       \/ TakeResult(c)
  \/ \E key \in {"getUser", "nope"} : CallerSetsApi(key, Evil)
  \/ \E key \in {"getUser", "nope"} : CallerDeletesApi(key)

SpecShared == InitShared /\ [][NextShared]_vars

\* ------------------------------------------------------------------------
\* Properties.
\* ------------------------------------------------------------------------

\* The proxy's registry: the map its apis field refers to.
Registry == heap[proxy.apis]

ViaRequest(c) == call[c].mode \in {"Request", "JSON"}

\* What the caller of Request or JSON gets back as the error.
Returns(c) == IF call[c].mode = "JSON" THEN call[c].jsonErr ELSE call[c].err

\* The payload a request carries on the wire.
WirePayload(req) == IF req.Body.kind = "nil" THEN <<>> ELSE req.Body.data

\* C1: a Request or JSON call whose ApiKey is not in the registry has
\* returned the error "Invalid API key" naming that key, and in that call
\* the preprocessor was not invoked and no request was handed to the HTTP
\* client.
C1_UnregisteredKeyFails ==
  \A c \in Callers :
    (ViaRequest(c) /\ call[c].opts.ApiKey \notin DOMAIN Registry) =>
      /\ pc[c] = "returned"
      /\ Returns(c) = [kind |-> "InvalidAPIKey", key |-> call[c].opts.ApiKey]
      /\ call[c].hookCalls = 0
      /\ call[c].sends = 0
      /\ call[c].sent = NoReq

C1_Witness ==
  \E c \in Callers :
    /\ pc[c] = "returned"
    /\ call[c].mode = "JSON"
    /\ call[c].opts.ApiKey = "nope"
    /\ call[c].jsonErr.kind = "InvalidAPIKey"
    /\ proxy.preprocessor = "auth"
    /\ "getUser" \in DOMAIN Registry

\* C2: whenever the HTTP client returned a response, the response body is
\* closed when RawRequest has returned, whatever the exit path.
C2_BodyClosedOnEveryPath ==
  \A c \in Callers :
    (pc[c] = "returned" /\ call[c].res.kind = "response") =>
      call[c].bodyState = "closed"

\* C3: for a response RawRequest received, a status in 200..299 with a
\* body read to its end gives exactly the body bytes and a nil error, and a
\* status outside 200..299 gives an error naming that status and no bytes.
C3_StatusClassDecidesResult ==
  \A c \in Callers :
    (pc[c] = "returned" /\ call[c].res.kind = "response") =>
      /\ (call[c].res.StatusCode \in 200..299 /\ ~call[c].res.Body.fails) =>
           (call[c].result = call[c].res.Body.data /\ call[c].err = NoErr)
      /\ (call[c].res.StatusCode \notin 200..299) =>
           /\ call[c].err = [kind |-> "Status", code |-> call[c].res.StatusCode]
           /\ call[c].result = <<>>

C3_Witness ==
  \E c \in Callers :
    /\ pc[c] = "returned"
    /\ call[c].mode = "Request"
    /\ call[c].res.kind = "response"
    /\ call[c].res.StatusCode = 299
    /\ ~call[c].res.Body.fails
    /\ Len(call[c].res.Body.data) > 0
    /\ call[c].result = call[c].res.Body.data

\* Request assembly succeeded: the key was found, the request was created,
\* the headers were set and no step of the body encoding failed.
AssemblyOK(c) ==
  /\ call[c].assembled.kind = "request"
  /\ call[c].dropped = NoErr

Before(steps, a, b) ==
  \E i, j \in 1..Len(steps) : i < j /\ steps[i] = a /\ steps[j] = b

\* C4: with a preprocessor configured, a Request call invokes it once if
\* assembly succeeded and not at all if assembly failed; it runs after the
\* headers and the body are applied and before the request is handed to the
\* client, and what is sent is the request as the preprocessor left it.
C4_PreprocessorOncePerAssembly ==
  \A c \in Callers :
    (proxy.preprocessor # "nil" /\ ViaRequest(c)) =>
      /\ call[c].hookCalls = IF AssemblyOK(c) THEN 1 ELSE 0
      /\ AssemblyOK(c) =>
           /\ Before(call[c].steps, "Header", "preprocessor")
           /\ Before(call[c].steps, "preprocessor", "Do")
           /\ ~Before(call[c].steps, "preprocessor", "processBody")
           /\ call[c].sent = preprocessor(proxy.preprocessor, call[c].assembled)

\* The value a request's header holds under a key, empty when it has none.
HeaderGet(h, key) ==
  LET ck == CanonicalMIMEHeaderKey(key)
  IN IF ck \in DOMAIN h THEN h[ck] ELSE <<>>

\* The Content-Type values the caller supplied in opts.Headers.
CallerContentTypes(opts) ==
  IF opts.Headers.kind = "nil" THEN {}
  ELSE { opts.Headers.m[k] :
           k \in { x \in DOMAIN opts.Headers.m :
                     CanonicalMIMEHeaderKey(x) = <<"C", "o", "n", "t", "e", "n", "t", "-", "T", "y", "p", "e">> } }

ContentTypeUntouched(c) ==
  IF CallerContentTypes(call[c].opts) = {}
  THEN <<"C", "o", "n", "t", "e", "n", "t", "-", "T", "y", "p", "e">> \notin DOMAIN call[c].sent.Header
  ELSE /\ <<"C", "o", "n", "t", "e", "n", "t", "-", "T", "y", "p", "e">> \in DOMAIN call[c].sent.Header
       /\ call[c].sent.Header[<<"C", "o", "n", "t", "e", "n", "t", "-", "T", "y", "p", "e">>] \in CallerContentTypes(call[c].opts)

\* C5: the request a Request call transmits carries the body as the table
\* says: a string or byte slice verbatim, content length its byte count and
\* no content type added; a string-to-string map as a URL-form-encoded
\* payload with content type application/x-www-form-urlencoded; a struct as
\* its JSON serialisation with content type application/json.
C5_BodyEncodingTable ==
  \A c \in Callers :
    (ViaRequest(c) /\ call[c].sends = 1) =>
      LET body == call[c].opts.Body
          req == call[c].sent
      IN CASE body.kind = "string" ->
                /\ WirePayload(req) = body.str
                /\ req.ContentLength = Len(body.str)
                /\ ContentTypeUntouched(c)
           [] body.kind = "bytes" ->
                /\ WirePayload(req) = body.bytes
                /\ req.ContentLength = Len(body.bytes)
                /\ ContentTypeUntouched(c)
           [] body.kind = "map" ->
                /\ WirePayload(req) = Encode(body.m)
                /\ HeaderGet(req.Header, <<"C", "o", "n", "t", "e", "n", "t", "-", "T", "y", "p", "e">>) = <<"a", "p", "p", "l", "i", "c", "a", "t", "i", "o", "n", "/", "x", "-", "w", "w", "w", "-", "f", "o", "r", "m", "-", "u", "r", "l", "e", "n", "c", "o", "d", "e", "d">>
           [] body.kind = "struct" ->
                /\ WirePayload(req) = Marshal(body).data
                /\ body.fields = StructAlice => WirePayload(req) = <<"{", "\"", "N", "a", "m", "e", "\"", ":", "\"", "a", "l", "i", "c", "e", "\"", ",", "\"", "A", "g", "e", "\"", ":", "3", "0", "}">>
                /\ HeaderGet(req.Header, <<"C", "o", "n", "t", "e", "n", "t", "-", "T", "y", "p", "e">>) = <<"a", "p", "p", "l", "i", "c", "a", "t", "i", "o", "n", "/", "j", "s", "o", "n">>
           [] OTHER -> TRUE

SupportedKinds == {"string", "bytes", "map", "struct"}

UnsupportedBody(c) ==
  /\ ViaRequest(c)
  /\ call[c].opts.ApiKey \in DOMAIN Registry
  /\ call[c].opts.Body.kind \notin SupportedKinds \cup {"nil"}

BodyStepError(c) ==
  IF call[c].dropped # NoErr THEN call[c].dropped
  ELSE IF call[c].err.kind \in {"IllegalBodyType", "UnsupportedType"} THEN call[c].err
  ELSE NoErr

\* C7: when a step of the body encoding fails, the form parsing of a map
\* body included, Request returns that error and neither invokes the
\* preprocessor nor transmits the request.
C7_NoFailureSwallowed ==
  \A c \in Callers :
    (ViaRequest(c) /\ BodyStepError(c) # NoErr) =>
      /\ pc[c] = "returned"
      /\ call[c].err = BodyStepError(c)
      /\ call[c].hookCalls = 0
      /\ call[c].sends = 0

\* C8: when Request or RawRequest returns a non-nil error, the bytes it
\* returns are empty.
C8_NoBytesWithError ==
  \A c \in Callers :
    (pc[c] = "returned" /\ call[c].err # NoErr) => Len(call[c].result) = 0

\* C9: the proxy's registry holds what the API map held at construction
\* and its base scheme and host are the construction values, whatever
\* calls run and whatever the caller does to its map afterwards; a key
\* resolves, in every call, as it did at construction.
C9_RegistryAndBaseFixed ==
  /\ proxy.apis # NilRef
  /\ Registry = built.APIs
  /\ proxy.url = [Scheme |-> built.Scheme, Host |-> built.Host]
  /\ \A c \in Callers :
       (ViaRequest(c) /\ pc[c] = "returned") =>
         (call[c].err.kind = "InvalidAPIKey" <=> call[c].opts.ApiKey \notin DOMAIN built.APIs)

C9_Witness ==
  /\ heap["callerMap"] # built.APIs
  /\ "getUser" \notin DOMAIN heap["callerMap"]
  /\ "nope" \in DOMAIN heap["callerMap"]
  /\ pc["c1"] = "inflight"
  /\ call["c1"].mode = "JSON"
  /\ call["c1"].opts.ApiKey = "getUser"
  /\ pc["c2"] = "returned"
  /\ call["c2"].mode = "Request"
  /\ call["c2"].opts.ApiKey = "nope"
  /\ call["c2"].err.kind = "InvalidAPIKey"

\* The query string Request asks for.
WantedQuery(opts) ==
  IF opts.Query.kind # "nil" /\ DOMAIN opts.Query.m # {}
  THEN <<"?">> \o Encode(opts.Query.m)
  ELSE <<>>

BuiltURL(c) == String(call[c].assembled.URL)

PathSafe == AlphaNum \cup {"-", "_", ".", "~", "$", "&", "+", ",", "/", ":", ";", "=", "@"}

====
